---- MODULE Spec2Model ----
(***************************************************************************)
(* Model of lib/issue-bot.js: the input validator, the assignee rotation   *)
(* and the series orchestrator `run`, with the issue tracker and the        *)
(* template renderer as nondeterministic collaborators.                     *)
(***************************************************************************)
EXTENDS Integers, Sequences, FiniteSets, TLC

\* ------------------------------------------------------------------ bounds
NumLogins == 2      \* distinct logins that occur in assignee lists
MaxAssignees == 2   \* longest configured assignee list
MaxPrev == 1        \* previous issue numbers are 1..MaxPrev
NumErrors == 1      \* distinct errors the tracker can raise
RotLogins == 3      \* logins in the lists getNextAssignee is applied to
RotLen == 3         \* longest list getNextAssignee is applied to
MaxRuns == 3        \* runs of one series

\* ------------------------------------------------- JavaScript values
\* Every JavaScript value the code handles is a record [t, n, s, a]:
\* its type tag, and its number, string or array payload.
Undefined == [t |-> "undefined", n |-> 0, s |-> "", a |-> <<>>]
NaN == [t |-> "NaN", n |-> 0, s |-> "", a |-> <<>>]
Num(k) == [t |-> "number", n |-> k, s |-> "", a |-> <<>>]
Str(x) == [t |-> "string", n |-> 0, s |-> x, a |-> <<>>]
Arr(q) == [t |-> "array", n |-> 0, s |-> "", a |-> q]

\* ToBoolean, as `!!v` and `if (v)` apply it.
Truthy(v) ==
  CASE v.t = "undefined" -> FALSE
    [] v.t = "NaN" -> FALSE
    [] v.t = "number" -> v.n # 0
    [] v.t = "string" -> v.s # ""
    [] OTHER -> TRUE

\* Number(v) for the values the code converts.
ToNumber(v) ==
  CASE v.t = "number" -> v
    [] OTHER -> NaN

LoginOrder == <<"alice", "bob", "carol", "dave">>
Logins == {Str(LoginOrder[i]) : i \in 1..NumLogins}
RotationLogins == {Str(LoginOrder[i]) : i \in 1..RotLogins}
Stranger == Str("zed")

\* Arrays of length 1..k over the set S.
RECURSIVE ArraysUpTo(_, _)
ArraysUpTo(S, k) ==
  IF k = 0 THEN {}
  ELSE LET shorter == ArraysUpTo(S, k - 1)
       IN  {<<x>> : x \in S} \cup shorter
             \cup {Append(q, x) : q \in shorter, x \in S}

\* ------------------------------------------------------- pure functions
needPreviousIssueEvery(conditions) ==
  \A i \in 1..Len(conditions) : conditions[i] = TRUE

\* conditions.includes(true)
needPreviousIssue(conditions) ==
  \E i \in 1..Len(conditions) : conditions[i] = TRUE

issueExistsNotMinusOne(previousIssueNumber) ==
  ~(previousIssueNumber.t = "number" /\ previousIssueNumber.n = -1)

\* `previousIssueNumber >= 0`: undefined converts to NaN, which compares false.
issueExists(previousIssueNumber) ==
  LET k == ToNumber(previousIssueNumber)
  IN  IF k.t = "NaN" THEN FALSE ELSE k.n >= 0

checkInputsNoLabelCheck(inputs) ==
  LET ok1 == Truthy(inputs.title)
      ok2 == IF inputs.pinned THEN TRUE ELSE ok1
      ok3 == IF inputs.closePrevious THEN Truthy(inputs.labels) ELSE ok2
      ok4 == IF inputs.linkedComments THEN Truthy(inputs.labels) ELSE ok3
      ok5 == IF inputs.rotateAssignees
             THEN Truthy(inputs.labels) /\ Truthy(inputs.assignees) ELSE ok4
  IN  ok5

checkInputsNoAssigneeCheck(inputs) ==
  LET ok1 == Truthy(inputs.title)
      ok2 == IF inputs.pinned THEN Truthy(inputs.labels) ELSE ok1
      ok3 == IF inputs.closePrevious THEN Truthy(inputs.labels) ELSE ok2
      ok4 == IF inputs.linkedComments THEN Truthy(inputs.labels) ELSE ok3
      ok5 == IF inputs.rotateAssignees THEN Truthy(inputs.labels) ELSE ok4
  IN  ok5

\* `ok` is assigned, not accumulated: each later rule overwrites the verdict
\* of the earlier ones.
checkInputs(inputs) ==
  LET ok1 == Truthy(inputs.title)
      ok2 == IF inputs.pinned THEN Truthy(inputs.labels) ELSE ok1
      ok3 == IF inputs.closePrevious THEN Truthy(inputs.labels) ELSE ok2
      ok4 == IF inputs.linkedComments THEN Truthy(inputs.labels) ELSE ok3
      ok5 == IF inputs.rotateAssignees
             THEN Truthy(inputs.labels) /\ Truthy(inputs.assignees) ELSE ok4
  IN  ok5

\* Array.prototype.indexOf: the first 0-based position holding x, else -1.
RECURSIVE indexOfFrom(_, _, _)
indexOfFrom(q, x, i) ==
  IF i > Len(q) THEN -1
  ELSE IF q[i] = x THEN i - 1
  ELSE indexOfFrom(q, x, i + 1)

indexOf(q, x) == indexOfFrom(q, x, 1)

\* a % b for a >= 0; the remainder by zero is NaN.
Remainder(a, b) == IF b = 0 THEN NaN ELSE Num(a % b)

\* q[i] with a JavaScript index: anything but a position of q is undefined.
At(q, i) ==
  IF i.t = "number" /\ i.n >= 0 /\ i.n < Len(q) THEN q[i.n + 1] ELSE Undefined

getNextAssigneeNoWrap(assignees, previousAssignee) ==
  LET index == Num(indexOf(assignees.a, previousAssignee) + 1)
  IN  <<At(assignees.a, index)>>

getNextAssigneeNoAdvance(assignees, previousAssignee) ==
  LET index == Num(indexOf(assignees.a, previousAssignee))
  IN  <<At(assignees.a, index)>>

getNextAssigneeShortCycle(assignees, previousAssignee) ==
  LET index == Remainder(indexOf(assignees.a, previousAssignee) + 1,
                         Len(assignees.a) - 1)
  IN  <<At(assignees.a, index)>>

\* On the empty string ''.indexOf(..) is -1 and the remainder by length 0 is
\* NaN, so the element is undefined; .a is <<>> for a string.
getNextAssignee(assignees, previousAssignee) ==
  LET index == Remainder(indexOf(assignees.a, previousAssignee) + 1,
                         Len(assignees.a))
  IN  <<At(assignees.a, index)>>

\* --------------------------------------------------------------- state
VARIABLES
  inputs,               \* the inputs record of the run (assignees mutated in place)
  given,                \* the inputs as supplied at invocation start
  history,              \* what each finished run of the series saw and created
  pc,                   \* position of run
  inflight,             \* the tracker calls awaited and not yet answered
  calls,                \* every tracker call issued so far, in order
  previousIssueNumber, previousIssueNodeId, previousAssignees,
  newIssueNumber, newIssueId, newIssueNodeId,
  data,                 \* isPinned's `data`: the answer to the pinned-issues query
  outputs,              \* values passed to core.setOutput('issue-number', ..)
  failed,               \* messages passed to core.setFailed
  raised,               \* errors thrown inside the try block, with the step
  repo,                 \* the tracker's side: pinned, closed, comments, cards
  args, ret             \* argument and result of a function applied on its own

locals == <<previousIssueNumber, previousIssueNodeId, previousAssignees,
            newIssueNumber, newIssueId, newIssueNodeId>>
vars == <<inputs, given, history, pc, inflight, calls, locals, data, outputs, failed,
          raised, repo, args, ret>>

\* ----------------------------------------------------- tracker contents
NodeNames == <<"N1", "N2", "N3", "N4", "N5", "N6", "N7", "N8", "N9">>
NodeId(k) == Str(NodeNames[k])
PrevNumbers == 1..MaxPrev
\* The tracker numbers a new issue after the ones it already holds.
NewNumber == MaxPrev + 1 + Len(repo.created)
OtherNode == Str("NX")
ProjectNumbers == {5, 6}
ColumnName == "Backlog"
Errors == {Str(<<"E1", "E2", "E3">>[i]) : i \in 1..NumErrors}
TypeError == Str("TypeError")
RenderError == Str("RenderError")

\* One tracker call: the operation, the issue number and the node id or
\* assignee list it carries.
Call(op, num, id, list) == [op |-> op, num |-> num, id |-> id, list |-> list]

\* core.setFailed(`Error encountered: ${error}.`)
Message(error) == <<"Error encountered: ", error.s, ".">>

Flags == [pinned : BOOLEAN, closePrevious : BOOLEAN,
          linkedComments : BOOLEAN, rotateAssignees : BOOLEAN]

MakeInputs(f, title, labels, assignees, project, column, milestone) ==
  [pinned |-> f.pinned, closePrevious |-> f.closePrevious,
   linkedComments |-> f.linkedComments, rotateAssignees |-> f.rotateAssignees,
   title |-> title, labels |-> labels, assignees |-> assignees,
   project |-> project, column |-> column, milestone |-> milestone]

\* An unset option is '' or undefined (removeEmptyProps); a set list is an array.
AssigneeInputs ==
  {Undefined, Str("")} \cup {Arr(q) : q \in ArraysUpTo(Logins, MaxAssignees)}
\* The lists run is configured with: the first 1..MaxAssignees logins in order.
ConfiguredAssignees ==
  {Undefined, Str("")}
    \cup {Arr([i \in 1..k |-> Str(LoginOrder[i])]) : k \in 1..MaxAssignees}
LabelInputs == {Undefined, Str(""), Arr(<<Str("recurring")>>)}
TitleInputs == {Undefined, Str(""), Str("Weekly sync")}

NoArgs == <<>>
NoRet == <<>>

InitRun ==
  /\ \E f \in Flags, as \in ConfiguredAssignees, proj \in BOOLEAN, ms \in BOOLEAN :
       inputs = MakeInputs(f, Str("Weekly sync"), Arr(<<Str("recurring")>>), as,
                           IF proj THEN Num(5) ELSE Str(""),
                           IF proj THEN Str(ColumnName) ELSE Str(""),
                           IF ms THEN Num(1) ELSE Str(""))
  /\ given = inputs
  /\ history = <<>>
  /\ pc = "start"
  /\ inflight = <<>>
  /\ calls = <<>>
  /\ previousIssueNumber = Num(-1)
  /\ previousIssueNodeId = Undefined
  /\ previousAssignees = Undefined
  /\ newIssueNumber = Undefined
  /\ newIssueId = Undefined
  /\ newIssueNodeId = Undefined
  /\ data = <<>>
  /\ outputs = <<>>
  /\ failed = <<>>
  /\ raised = <<>>
  /\ \E pinnedBefore \in {{}, {OtherNode}, {NodeId(1), OtherNode}} :
       repo = [pinned |-> pinnedBefore, closed |-> {}, comments |-> {},
               cards |-> {}, milestones |-> {}, created |-> <<>>,
               projects |-> <<>>, columns |-> <<>>]
  /\ args = NoArgs
  /\ ret = NoRet

\* ------------------------------------------------------------ run: steps
ThrowThenOutput(error) ==
  /\ raised' = Append(raised, [error |-> error, at |-> pc])
  /\ failed' = Append(failed, Message(error))
  /\ pc' = "output"
  /\ inflight' = <<>>
  /\ UNCHANGED <<inputs, given, history, calls, locals, data, outputs, repo, args, ret>>

ThrowAndRetry(error) ==
  /\ raised' = Append(raised, [error |-> error, at |-> pc])
  /\ failed' = Append(failed, Message(error))
  /\ pc' = "done"
  /\ inflight' = <<>>
  /\ calls' = calls \o inflight
  /\ UNCHANGED <<inputs, given, history, locals, data, outputs, repo, args, ret>>

\* A rejected await or a throw inside the try block: the catch clause reports
\* the failure and the rest of the block is skipped.
Throw(error) ==
  /\ raised' = Append(raised, [error |-> error, at |-> pc])
  /\ failed' = Append(failed, Message(error))
  /\ pc' = "done"
  /\ inflight' = <<>>
  /\ UNCHANGED <<inputs, given, history, calls, locals, data, outputs, repo, args, ret>>

\* `await octokit...(..)`: the call goes out and run waits at `at`.
Await(call, at) ==
  /\ calls' = Append(calls, call)
  /\ inflight' = Append(inflight, call)
  /\ pc' = at

\* The awaited call has answered and run resumes at `at`.
Resume(at) ==
  /\ inflight' = <<>>
  /\ pc' = at

\* run, lines 284-288, and getPreviousIssue up to its await.
RunStart ==
  /\ pc = "start"
  /\ IF needPreviousIssue(<<inputs.pinned, inputs.closePrevious,
                            inputs.rotateAssignees, inputs.linkedComments>>)
     THEN Await(Call("listForRepo", Undefined, Undefined, inputs.labels),
                "getPreviousIssue")
     ELSE /\ pc' = "rotate"
          /\ UNCHANGED <<calls, inflight>>
  /\ UNCHANGED <<inputs, given, history, locals, data, outputs, failed, raised, repo,
                 args, ret>>

\* The issue lists the tracker can answer the label query with: empty, or
\* headed by an issue of the series.
PreviousAssigneeLists ==
  {<<>>} \cup {<<l>> : l \in Logins \cup {Stranger}}
    \cup {<<Str(LoginOrder[1]), Stranger>>}

\* getPreviousIssue from its await to its return, and the destructuring
\* assignment of run line 287.
GetPreviousIssueReturn ==
  /\ pc = "getPreviousIssue"
  /\ \/ \E e \in Errors : Throw(e)
     \/ /\ \/ /\ previousIssueNumber' = Undefined
              /\ previousIssueNodeId' = Undefined
              /\ previousAssignees' = Str("")
           \/ \E k \in PrevNumbers, as \in PreviousAssigneeLists :
                /\ previousIssueNumber' = (IF Truthy(Num(k)) THEN ToNumber(Num(k))
                                                           ELSE Undefined)
                /\ previousIssueNodeId' = NodeId(k)
                /\ previousAssignees' = Arr(as)
           \/ /\ repo.created # <<>>     \* the issue an earlier run created
              /\ LET last == repo.created[Len(repo.created)]
                 IN  /\ previousIssueNumber' = (IF Truthy(last[1])
                                                THEN ToNumber(last[1])
                                                ELSE Undefined)
                     /\ previousIssueNodeId' = NodeId(last[1].n)
                     /\ previousAssignees' = (IF last[2].t = "array" THEN last[2]
                                                                    ELSE Arr(<<>>))
        /\ Resume("rotate")
        /\ UNCHANGED <<inputs, given, history, calls, newIssueNumber, newIssueId,
                       newIssueNodeId, data, outputs, failed, raised, repo,
                       args, ret>>

\* removeEmptyProps on one property: '' and undefined are deleted.
removeEmptyProps(v) ==
  IF (v.t = "string" /\ v.s = "") \/ v.t = "undefined" THEN Undefined ELSE v

\* run lines 290-297 up to the await inside createNewIssue: rotation,
\* rendering of the body, and the create call.
RotateRenderCreate ==
  /\ pc = "rotate"
  /\ LET rotate == issueExists(previousIssueNumber) /\ inputs.rotateAssignees
         previousAssignee ==
           IF Len(previousAssignees.a) # 0 THEN previousAssignees.a[1]
                                           ELSE Undefined
     IN  IF rotate /\ inputs.assignees.t = "undefined"
         THEN Throw(TypeError)
         ELSE \/ Throw(RenderError)
              \/ LET assignees ==
                       IF rotate
                       THEN Arr(getNextAssignee(inputs.assignees, previousAssignee))
                       ELSE inputs.assignees
                 IN  /\ inputs' = [inputs EXCEPT !.assignees = assignees]
                     /\ Await(Call("create", Undefined, Undefined,
                                   removeEmptyProps(assignees)),
                              "createNewIssue")
                     /\ UNCHANGED <<given, history, locals, data, outputs, failed,
                                    raised, repo, args, ret>>

CreateNewIssueReturnSwallowsError ==
  /\ pc = "createNewIssue"
  /\ \E e \in Errors :
       /\ raised' = Append(raised, [error |-> e, at |-> pc])
       /\ newIssueNumber' = ToNumber(Undefined)
       /\ newIssueId' = Undefined
       /\ newIssueNodeId' = Undefined
       /\ Resume("project")
       /\ UNCHANGED <<inputs, given, history, calls, previousIssueNumber,
                      previousIssueNodeId, previousAssignees, data, outputs,
                      failed, repo, args, ret>>

\* createNewIssue from its await to its return, and run line 297.
CreateNewIssueReturn ==
  /\ pc = "createNewIssue"
  /\ \/ \E e \in Errors : Throw(e)
     \/ Throw(TypeError)     \* no response object: `data` of {} is undefined
     \/ /\ \/ /\ newIssueNumber' = ToNumber(Num(NewNumber))
              /\ newIssueId' = Num(1000 + NewNumber)
              /\ newIssueNodeId' = NodeId(NewNumber)
              /\ repo' = [repo EXCEPT !.created =
                            Append(@, <<Num(NewNumber), inflight[1].list>>)]
           \/ /\ newIssueNumber' = ToNumber(Undefined)
              /\ newIssueId' = Undefined
              /\ newIssueNodeId' = Undefined
              /\ repo' = repo
        /\ Resume("project")
        /\ UNCHANGED <<inputs, given, history, calls, previousIssueNumber,
                       previousIssueNodeId, previousAssignees, data, outputs,
                       failed, raised, args, ret>>

keepLocal == <<inputs, given, history, locals, outputs, failed, raised, args, ret>>
keepRun == <<keepLocal, data>>

AddIssueToProjectColumnNotAwaited ==
  /\ pc = "project"
  /\ IF Truthy(inputs.project) /\ Truthy(inputs.column)
     THEN Await(Call("listProjects", Undefined, Undefined, Undefined),
                "milestone")
     ELSE /\ pc' = "milestone"
          /\ UNCHANGED <<calls, inflight>>
  /\ UNCHANGED <<keepRun, repo>>

\* run lines 299-301 and addIssueToProjectColumn up to its first await.
AddIssueToProjectColumn ==
  /\ pc = "project"
  /\ IF Truthy(inputs.project) /\ Truthy(inputs.column)
     THEN Await(Call("listProjects", Undefined, Undefined, Undefined),
                "listProjects")
     ELSE /\ pc' = "milestone"
          /\ UNCHANGED <<calls, inflight>>
  /\ UNCHANGED <<keepRun, repo>>

\* projects.find(project => project.number === Number(projectNumber))
findProject(projects, projectNumber) ==
  {number \in projects : Num(number) = ToNumber(projectNumber)}

\* A column matches in any spelling of its name.
Lower(name) == IF name = "Backlog" THEN "backlog" ELSE name
findColumnAnyCase(columns, columnName) ==
  {name \in columns : Lower(name) = Lower(columnName.s)}

\* columns.find(column => column.name === columnName)
findColumn(columns, columnName) ==
  {name \in columns : Str(name) = columnName}

\* addIssueToProjectColumn lines 224-239: the project is searched by number.
\* The tracker's project list shows in repo once it has been answered.
ListProjectsReturn ==
  /\ pc = "listProjects"
  /\ \/ \E e \in Errors : Throw(e)
     \/ \E projects \in {{}, {6}, ProjectNumbers} :
          /\ repo' = [repo EXCEPT !.projects = <<projects>>]
          /\ IF findProject(projects, inputs.project) # {}
             THEN /\ calls' = Append(calls, Call("listColumns", inputs.project,
                                                 Undefined, Undefined))
                  /\ inflight' = <<Call("listColumns", inputs.project,
                                        Undefined, Undefined)>>
                  /\ pc' = "listColumns"
             ELSE /\ Resume("milestone")
                  /\ calls' = calls
          /\ UNCHANGED keepRun

\* addIssueToProjectColumn lines 241-258: the column is searched by name.
ListColumnsReturn ==
  /\ pc = "listColumns"
  /\ \/ \E e \in Errors : Throw(e)
     \/ \E columns \in {{}, {"backlog"}, {ColumnName, "backlog"}} :
          /\ repo' = [repo EXCEPT !.columns = <<columns>>]
          /\ IF findColumn(columns, inputs.column) # {}
             THEN /\ calls' = Append(calls, Call("createCard", Undefined,
                                                 newIssueId, inputs.column))
                  /\ inflight' = <<Call("createCard", Undefined, newIssueId,
                                        inputs.column)>>
                  /\ pc' = "createCard"
             ELSE /\ Resume("milestone")
                  /\ calls' = calls
          /\ UNCHANGED keepRun

CreateCardReturn ==
  /\ pc = "createCard"
  /\ \/ \E e \in Errors : Throw(e)
     \/ /\ Resume("milestone")
        /\ repo' = [repo EXCEPT !.cards = @ \cup {<<inflight[1].id, inflight[1].list>>}]
        /\ UNCHANGED <<keepRun, calls>>

\* run lines 303-305 and addIssueToMilestone up to its await.
AddIssueToMilestone ==
  /\ pc = "milestone"
  /\ IF Truthy(inputs.milestone)
     THEN Await(Call("updateMilestone", newIssueNumber, Undefined,
                     inputs.milestone), "updateMilestone")
     ELSE /\ pc' = "comments"
          /\ UNCHANGED <<calls, inflight>>
  /\ UNCHANGED <<keepRun, repo>>

\* addIssueToMilestone lines 264-273: an empty answer only warns.
UpdateMilestoneReturn ==
  /\ pc = "updateMilestone"
  /\ \/ \E e \in Errors : Throw(e)
     \/ /\ Resume("comments")
        /\ \/ repo' = [repo EXCEPT !.milestones = @ \cup {inflight[1].num}]
           \/ repo' = repo
        /\ UNCHANGED <<keepRun, calls>>

MakeLinkedCommentsPreviousFirst ==
  /\ pc = "comments"
  /\ IF issueExists(previousIssueNumber) /\ inputs.linkedComments
     THEN Await(Call("createComment", previousIssueNumber, Undefined,
                     newIssueNumber), "comment1")
     ELSE /\ pc' = "close"
          /\ UNCHANGED <<calls, inflight>>
  /\ UNCHANGED <<keepRun, repo>>

\* run lines 308-310 and makeLinkedComments up to its first await.
MakeLinkedComments ==
  /\ pc = "comments"
  /\ IF issueExists(previousIssueNumber) /\ inputs.linkedComments
     THEN Await(Call("createComment", newIssueNumber, Undefined,
                     previousIssueNumber), "comment1")
     ELSE /\ pc' = "close"
          /\ UNCHANGED <<calls, inflight>>
  /\ UNCHANGED <<keepRun, repo>>

\* makeLinkedComments lines 176-187: the first comment is in, the second goes out.
CommentOnNewReturn ==
  /\ pc = "comment1"
  /\ \/ \E e \in Errors : Throw(e)
     \/ /\ repo' = [repo EXCEPT !.comments = @ \cup {<<inflight[1].num, inflight[1].list>>}]
        /\ calls' = Append(calls, Call("createComment", previousIssueNumber,
                                       Undefined, newIssueNumber))
        /\ inflight' = <<Call("createComment", previousIssueNumber,
                              Undefined, newIssueNumber)>>
        /\ pc' = "comment2"
        /\ UNCHANGED keepRun

CommentOnPreviousReturn ==
  /\ pc = "comment2"
  /\ \/ \E e \in Errors : Throw(e)
     \/ /\ repo' = [repo EXCEPT !.comments = @ \cup {<<inflight[1].num, inflight[1].list>>}]
        /\ Resume("close")
        /\ UNCHANGED <<keepRun, calls>>

CloseIssuePinWithoutClose ==
  /\ pc = "close"
  /\ IF issueExists(previousIssueNumber) /\ inputs.closePrevious
     THEN Await(Call("close", previousIssueNumber, Undefined, Undefined),
                "closeIssue")
     ELSE IF inputs.pinned
     THEN Await(Call("pinnedIssues", Undefined, Undefined, Undefined),
                "isPinned")
     ELSE /\ pc' = "output"
          /\ UNCHANGED <<calls, inflight>>
  /\ UNCHANGED <<keepRun, repo>>

\* run lines 313-314 and closeIssue up to its await.
CloseIssue ==
  /\ pc = "close"
  /\ IF issueExists(previousIssueNumber) /\ inputs.closePrevious
     THEN Await(Call("close", previousIssueNumber, Undefined, Undefined),
                "closeIssue")
     ELSE /\ pc' = "output"
          /\ UNCHANGED <<calls, inflight>>
  /\ UNCHANGED <<keepRun, repo>>

\* closeIssue returns; run lines 317-318 and unpin/isPinned up to the query.
CloseIssueReturn ==
  /\ pc = "closeIssue"
  /\ \/ \E e \in Errors : Throw(e)
     \/ /\ repo' = [repo EXCEPT !.closed = @ \cup {inflight[1].num}]
        /\ IF inputs.pinned
           THEN /\ calls' = Append(calls, Call("pinnedIssues", Undefined,
                                               Undefined, Undefined))
                /\ inflight' = <<Call("pinnedIssues", Undefined, Undefined,
                                      Undefined)>>
                /\ pc' = "isPinned"
           ELSE /\ Resume("output")
                /\ calls' = calls
        /\ UNCHANGED keepRun

isPinnedFromMinusOne(answer, issueId) ==
  IF ~answer.resource THEN FALSE ELSE TRUE

\* isPinned lines 85-90 on the answer to the pinned-issues query.
isPinned(answer, issueId) ==
  IF ~answer.resource THEN FALSE
  ELSE LET pinnedIssues == IF answer.hasNodes THEN answer.nodes ELSE {}
       IN  \E pinnedIssue \in pinnedIssues : pinnedIssue = issueId

PinCall == Call("pinIssue", Undefined, newIssueNodeId, Undefined)
UnpinCallOnNew == Call("unpinIssue", Undefined, newIssueNodeId, Undefined)
UnpinCall == Call("unpinIssue", Undefined, previousIssueNodeId, Undefined)

\* The answers to the pinned-issues query: no repository resource, a null
\* node list, or the issues pinned in the repository.
PinnedAnswers ==
  {[resource |-> FALSE, hasNodes |-> FALSE, nodes |-> {}],
   [resource |-> TRUE, hasNodes |-> FALSE, nodes |-> {}],
   [resource |-> TRUE, hasNodes |-> TRUE, nodes |-> repo.pinned]}

IsPinnedReturnPinsFirst ==
  /\ pc = "isPinned"
  /\ \/ \E e \in Errors : Throw(e)
     \/ \E answer \in PinnedAnswers :
          /\ data' = <<answer>>
          /\ calls' = Append(calls, PinCall)
          /\ inflight' = <<PinCall>>
          /\ pc' = "pin"
          /\ UNCHANGED <<keepLocal, repo>>

\* isPinned returns into unpin (lines 95-114), which either returns at once,
\* so that run goes on to pin (line 319), or issues the unpin mutation.
IsPinnedReturn ==
  /\ pc = "isPinned"
  /\ \/ \E e \in Errors : Throw(e)
     \/ \E answer \in PinnedAnswers :
          /\ data' = <<answer>>
          /\ IF isPinned(answer, previousIssueNodeId)
             THEN /\ calls' = Append(calls, UnpinCall)
                  /\ inflight' = <<UnpinCall>>
                  /\ pc' = "unpin"
             ELSE /\ calls' = Append(calls, PinCall)
                  /\ inflight' = <<PinCall>>
                  /\ pc' = "pin"
          /\ UNCHANGED <<keepLocal, repo>>

\* The unpin mutation returns; run line 319 and pin up to its await.
UnpinReturn ==
  /\ pc = "unpin"
  /\ \/ \E e \in Errors : Throw(e)
     \/ /\ repo' = [repo EXCEPT !.pinned = @ \ {inflight[1].id}]
        /\ calls' = Append(calls, PinCall)
        /\ inflight' = <<PinCall>>
        /\ pc' = "pin"
        /\ UNCHANGED keepRun

PinReturn ==
  /\ pc = "pin"
  /\ \/ \E e \in Errors : Throw(e)
     \/ /\ repo' = [repo EXCEPT !.pinned =
                      IF inflight[1].id.t = "string" THEN @ \cup {inflight[1].id}
                                                     ELSE @]
        /\ Resume("output")
        /\ UNCHANGED <<keepRun, calls>>

\* String(newIssueNumber)
StringOf(v) == IF v.t = "number" THEN Str(ToString(v.n)) ELSE Str(v.t)

\* run lines 323-326.
SetOutput ==
  /\ pc = "output"
  /\ outputs' = IF Truthy(newIssueNumber)
                THEN Append(outputs, StringOf(newIssueNumber))
                ELSE outputs
  /\ pc' = "done"
  /\ UNCHANGED <<inputs, given, history, inflight, calls, locals, data, failed, raised,
                 repo, args, ret>>

Next ==
  \/ RunStart
  \/ GetPreviousIssueReturn
  \/ RotateRenderCreate
  \/ CreateNewIssueReturn
  \/ AddIssueToProjectColumn
  \/ ListProjectsReturn
  \/ ListColumnsReturn
  \/ CreateCardReturn
  \/ AddIssueToMilestone
  \/ UpdateMilestoneReturn
  \/ MakeLinkedComments
  \/ CommentOnNewReturn
  \/ CommentOnPreviousReturn
  \/ CloseIssue
  \/ CloseIssueReturn
  \/ IsPinnedReturn
  \/ UnpinReturn
  \/ PinReturn
  \/ SetOutput

Spec == InitRun /\ [][Next]_vars

TypeOK ==
  /\ pc \in {"start", "getPreviousIssue", "rotate", "createNewIssue", "project",
             "listProjects", "listColumns", "createCard", "milestone",
             "updateMilestone", "comments", "comment1", "comment2", "close",
             "closeIssue", "isPinned", "unpin", "pin", "output", "done"}
  /\ Len(inflight) <= 1

\* ------------------------------------------- functions applied on their own
Idle ==
  /\ given = inputs
  /\ history = <<>>
  /\ inflight = <<>>
  /\ calls = <<>>
  /\ previousIssueNumber = Num(-1)
  /\ previousIssueNodeId = Undefined
  /\ previousAssignees = Undefined
  /\ newIssueNumber = Undefined
  /\ newIssueId = Undefined
  /\ newIssueNodeId = Undefined
  /\ data = <<>>
  /\ outputs = <<>>
  /\ failed = <<>>
  /\ raised = <<>>
  /\ repo = [pinned |-> {}, closed |-> {}, comments |-> {}, cards |-> {},
             milestones |-> {}, created |-> <<>>, projects |-> <<>>,
             columns |-> <<>>]
  /\ ret = NoRet

InitCheckInputs ==
  /\ \E f \in Flags, title \in TitleInputs, labels \in LabelInputs,
        as \in AssigneeInputs :
       inputs = MakeInputs(f, title, labels, as, Str(""), Str(""), Str(""))
  /\ pc = "checkInputs"
  /\ args = NoArgs
  /\ Idle

CheckInputsCall ==
  /\ pc = "checkInputs"
  /\ ret' = <<checkInputs(inputs)>>
  /\ pc' = "returned"
  /\ UNCHANGED <<inputs, given, history, inflight, calls, locals, data, outputs, failed,
                 raised, repo, args>>

SpecCheckInputs == InitCheckInputs /\ [][CheckInputsCall]_vars

InitGetNextAssignee ==
  /\ \E A \in ArraysUpTo(RotationLogins, RotLen),
        P \in RotationLogins \cup {Stranger, Undefined} :
       args = <<Arr(A), P>>
  /\ inputs = MakeInputs([pinned |-> FALSE, closePrevious |-> FALSE,
                          linkedComments |-> FALSE, rotateAssignees |-> TRUE],
                         Str("Weekly sync"), Arr(<<Str("recurring")>>), args[1],
                         Str(""), Str(""), Str(""))
  /\ pc = "getNextAssignee"
  /\ Idle

GetNextAssigneeCall ==
  /\ pc = "getNextAssignee"
  /\ ret' = <<getNextAssignee(args[1], args[2])>>
  /\ pc' = "returned"
  /\ UNCHANGED <<inputs, given, history, inflight, calls, locals, data, outputs, failed,
                 raised, repo, args>>

SpecGetNextAssignee == InitGetNextAssignee /\ [][GetNextAssigneeCall]_vars

\* ------------------------------------------------------ a series of runs
\* The scheduler invokes run again with the same configuration; the tracker
\* keeps what the earlier runs left in it.
InitSeries ==
  /\ \E k \in 1..MaxAssignees :
       inputs = MakeInputs([pinned |-> FALSE, closePrevious |-> FALSE,
                            linkedComments |-> FALSE, rotateAssignees |-> TRUE],
                           Str("Weekly sync"), Arr(<<Str("recurring")>>),
                           Arr([i \in 1..k |-> Str(LoginOrder[i])]),
                           Str(""), Str(""), Str(""))
  /\ pc = "start"
  /\ args = NoArgs
  /\ Idle

\* The issue a run looked up, when it is one that a run of the series created.
SeriesIssue(number) ==
  IF number.t = "number" /\ number.n > MaxPrev THEN number ELSE Undefined

NextRun ==
  /\ pc = "done"
  /\ Len(history) < MaxRuns
  /\ history' = Append(history,
                       IF failed = <<>> /\ Len(outputs) = 1
                       THEN [ok |-> TRUE, looked |-> SeriesIssue(previousIssueNumber),
                             number |-> newIssueNumber,
                             assignees |-> inputs.assignees]
                       ELSE [ok |-> FALSE, looked |-> Undefined,
                             number |-> Undefined, assignees |-> Undefined])
  /\ inputs' = given
  /\ pc' = "start"
  /\ inflight' = <<>>
  /\ calls' = <<>>
  /\ previousIssueNumber' = Num(-1)
  /\ previousIssueNodeId' = Undefined
  /\ previousAssignees' = Undefined
  /\ newIssueNumber' = Undefined
  /\ newIssueId' = Undefined
  /\ newIssueNodeId' = Undefined
  /\ data' = <<>>
  /\ outputs' = <<>>
  /\ failed' = <<>>
  /\ raised' = <<>>
  /\ UNCHANGED <<given, repo, args, ret>>

\* With only rotateAssignees set, these are the steps of run that can be taken.
NextSeries ==
  \/ RunStart
  \/ GetPreviousIssueReturn
  \/ RotateRenderCreate
  \/ CreateNewIssueReturn
  \/ AddIssueToProjectColumn
  \/ AddIssueToMilestone
  \/ MakeLinkedComments
  \/ CloseIssue
  \/ SetOutput
  \/ NextRun

SpecSeries == InitSeries /\ [][NextSeries]_vars

\* =================================================================== claims
Positions(op) == {i \in 1..Len(calls) : calls[i].op = op}
Count(op) == Cardinality(Positions(op))
Issued(op) == Positions(op) # {}
AnyFlag(in) ==
  in.pinned \/ in.closePrevious \/ in.rotateAssignees \/ in.linkedComments
LookupMissed == previousIssueNumber.t = "undefined"
PreviousFound == previousIssueNumber.t = "number" /\ previousIssueNumber.n >= 1

\* C1: once a tracker call or the rendering has raised an error, run is over:
\* no tracker call is issued in or after the step that raises, exactly one
\* failure is reported, it carries the description of that error, and no
\* 'issue-number' output is emitted.
C1_ErrorAbortsRun ==
  /\ [](raised # <<>> =>
          /\ pc = "done"
          /\ Len(raised) = 1
          /\ failed = <<Message(raised[1].error)>>
          /\ raised[1].error.s = failed[1][2]
          /\ outputs = <<>>)
  /\ [][raised' # <<>> => calls' = calls /\ outputs' = <<>>]_vars

C1_Witness ==
  /\ pc = "done"
  /\ raised # <<>>
  /\ raised[1].at = "closeIssue"
  /\ raised[1].error \in Errors
  /\ Issued("create")
  /\ newIssueNumber.t = "number"

\* C2 (as claimed): every finished run has exactly one outcome, either one
\* output and no failure message or one failure message and no output.
C2_ExactlyOneOutcome ==
  pc = "done" =>
    \/ Len(outputs) = 1 /\ failed = <<>>
    \/ Len(failed) = 1 /\ outputs = <<>>

\* C3: the create call is issued at most once in a run, and exactly once in
\* every finished run in which nothing before the creation (the lookup, the
\* rotation, the rendering) raised an error, whatever the flags and whether
\* or not a previous issue was found.
C3_CreateOnce ==
  /\ Count("create") <= 1
  /\ pc = "done" =>
       (Count("create") = 1 <=>
          ~(raised # <<>> /\ raised[1].at \in {"getPreviousIssue", "rotate"}))
  /\ pc \in {"start", "getPreviousIssue", "rotate"} => Count("create") = 0
  /\ pc \notin {"start", "getPreviousIssue", "rotate", "done"} =>
       Count("create") = 1

C3_Witness ==
  /\ pc = "done"
  /\ Count("create") = 1
  /\ PreviousFound
  /\ given.pinned /\ given.closePrevious /\ given.linkedComments
  /\ given.rotateAssignees
  /\ Issued("pinIssue")
  /\ raised = <<>>

\* C4: for a non-empty list A and any previous assignee P, getNextAssignee
\* returns a one-element list holding the element that follows the first
\* occurrence of P in A cyclically, and A[0] when P does not occur in A.
C4_NextAssignee ==
  (pc = "returned" /\ args # NoArgs) =>
    LET A == args[1].a
        P == args[2]
        where == {i \in 1..Len(A) : A[i] = P}
        first == CHOOSE i \in where : \A j \in where : i <= j
        result == ret[1]
    IN  /\ Len(A) >= 1
        /\ Len(result) = 1
        /\ IF where = {} THEN result[1] = A[1]
           ELSE IF first = Len(A) THEN result[1] = A[1]
           ELSE result[1] = A[first + 1]

C4_Witness ==
  /\ pc = "returned"
  /\ args # NoArgs
  /\ Len(args[1].a) = 3
  /\ args[2] = args[1].a[3]
  /\ args[1].a[1] # args[2]
  /\ args[1].a[2] # args[2]
  /\ ret[1] = <<args[1].a[1]>>

\* C5 (as claimed): checkInputs returns false whenever title is empty,
\* whatever the other fields hold.
C5_EmptyTitleRejected ==
  (pc = "returned" /\ args = NoArgs /\ inputs.title \in {Undefined, Str("")}) =>
    ret[1] = FALSE

AnsweredPinned ==
  /\ data # <<>>
  /\ data[1].resource
  /\ data[1].hasNodes
  /\ previousIssueNodeId \in data[1].nodes

\* C8: with pinned and closePrevious set, a previous issue (p, Np) found and a
\* new issue with node id Nn created, the calls go close(p), the pinned-issues
\* query, the unpin mutation on Np iff the query lists Np, then pin(Nn); pin is
\* issued only after close has completed and the unpin step has finished.
C8_CloseUnpinPin ==
  (given.pinned /\ given.closePrevious /\ PreviousFound
     /\ newIssueNodeId.t = "string") =>
    LET close == Positions("close")
        query == Positions("pinnedIssues")
        unpin == Positions("unpinIssue")
        pin == Positions("pinIssue")
    IN  /\ Cardinality(close) <= 1 /\ Cardinality(query) <= 1
        /\ Cardinality(unpin) <= 1 /\ Cardinality(pin) <= 1
        /\ \A c \in close : calls[c].num = previousIssueNumber
        /\ \A q \in query : (q - 1) \in close /\ previousIssueNumber \in repo.closed
        /\ \A u \in unpin : (u - 1) \in query /\ calls[u].id = previousIssueNodeId
        /\ data # <<>> => (unpin # {} <=> AnsweredPinned)
        /\ data = <<>> => unpin = {} /\ pin = {}
        /\ \A n \in pin :
             /\ calls[n].id = newIssueNodeId
             /\ IF AnsweredPinned
                THEN (n - 1) \in unpin /\ previousIssueNodeId \notin repo.pinned
                ELSE (n - 1) \in query
             /\ previousIssueNumber \in repo.closed
             /\ \A k \in 1..Len(inflight) : inflight[k].op = "pinIssue"
        /\ (pc = "done" /\ raised = <<>>) => pin # {}

C8_Witness ==
  /\ pc = "done"
  /\ raised = <<>>
  /\ given.pinned /\ given.closePrevious /\ PreviousFound
  /\ newIssueNodeId.t = "string"
  /\ Issued("close") /\ Issued("unpinIssue") /\ Issued("pinIssue")
  /\ newIssueNodeId \in repo.pinned

\* C9: the previous-issue lookup is issued iff one of pinned, closePrevious,
\* rotateAssignees, linkedComments is set (never when all four are false), at
\* most once in a run, and before the create call.
C9_LookupIffAnyFlag ==
  /\ Count("listForRepo") <= 1
  /\ pc = "start" => ~Issued("listForRepo")
  /\ pc # "start" => (Issued("listForRepo") <=> AnyFlag(given))
  /\ \A i \in Positions("listForRepo"), j \in Positions("create") : i < j

C9_Witness ==
  /\ pc = "done"
  /\ given.rotateAssignees
  /\ ~given.pinned /\ ~given.closePrevious /\ ~given.linkedComments
  /\ Issued("listForRepo")
  /\ Issued("create")

\* C10: issueExists(n) is true iff n >= 0, false for -1 and for undefined; a
\* lookup without a match raises nothing, the issue is created with the
\* assignees as configured, no comment, close, unpin or pin call is issued,
\* and the run that got a new issue number and met no error emits that number.
C10_AbsentPreviousIsNotFatal ==
  /\ issueExists(previousIssueNumber) =
       (previousIssueNumber.t = "number" /\ previousIssueNumber.n >= 0)
  /\ ~issueExists(Num(-1)) /\ ~issueExists(Undefined) /\ issueExists(Num(0))
  /\ LookupMissed =>
       /\ \A i \in 1..Len(calls) :
            calls[i].op \notin {"createComment", "close", "pinnedIssues",
                                "unpinIssue", "pinIssue"}
       /\ \A c \in Positions("create") :
            IF given.assignees.t = "array"
            THEN calls[c].list = given.assignees
            ELSE calls[c].list = Undefined
       /\ inputs.assignees = given.assignees
       /\ raised # <<>> =>
            ~(raised[1].at = "rotate" /\ raised[1].error = TypeError)
       /\ (pc = "done" /\ raised = <<>> /\ newIssueNumber.t = "number") =>
            /\ failed = <<>>
            /\ outputs = <<Str(ToString(newIssueNumber.n))>>

C10_Witness ==
  /\ pc = "done"
  /\ LookupMissed
  /\ given.rotateAssignees /\ given.closePrevious /\ given.linkedComments
  /\ given.pinned
  /\ given.assignees.t = "array" /\ Len(given.assignees.a) = 2
  /\ Issued("create")
  /\ Len(outputs) = 1

\* C11: a card is created iff the listed projects hold the configured number
\* and that project's columns hold the configured name in the same spelling;
\* a missing project or column raises nothing, creates no card, and the run
\* goes on to the later steps and emits its new issue number.
C11_CardIffProjectAndColumn ==
  LET projectListed == repo.projects # <<>> /\ 5 \in repo.projects[1]
      columnListed == repo.columns # <<>> /\ "Backlog" \in repo.columns[1]
      missing == \/ repo.projects # <<>> /\ ~projectListed
                 \/ repo.columns # <<>> /\ ~columnListed
  IN  /\ Issued("createCard") <=> (projectListed /\ columnListed)
      /\ Issued("listColumns") <=> projectListed
      /\ repo.cards # {} => Issued("createCard")
      /\ Count("createCard") <= 1
      /\ missing =>
           /\ repo.cards = {}
           /\ pc \notin {"listProjects", "listColumns", "createCard"}
           /\ raised # <<>> =>
                raised[1].at \notin {"listProjects", "listColumns", "createCard"}
           /\ (pc = "done" /\ raised = <<>>) =>
                (Issued("updateMilestone") <=> Truthy(given.milestone))
           /\ (pc = "done" /\ raised = <<>> /\ newIssueNumber.t = "number") =>
                /\ failed = <<>>
                /\ outputs = <<Str(ToString(newIssueNumber.n))>>

C11_Witness ==
  /\ pc = "done"
  /\ repo.projects = <<{5, 6}>>
  /\ repo.columns = <<{"backlog"}>>
  /\ ~Issued("createCard")
  /\ Issued("updateMilestone")
  /\ Len(outputs) = 1

\* C12: with rotateAssignees set, a previous issue found and a list of
\* assignees configured, the new issue is created with exactly one assignee:
\* the one after the previous issue's first assignee in the configured list,
\* cyclically, or the first configured one when the previous issue has no
\* assignee or its first assignee is not in the list (alice, [alice, bob]
\* gives [bob]).
C12_RotatedAssignee ==
  (given.rotateAssignees /\ PreviousFound /\ given.assignees.t = "array") =>
    LET A == given.assignees.a
        previous == previousAssignees.a
        where == IF previous = <<>> THEN {}
                 ELSE {i \in 1..Len(A) : A[i] = previous[1]}
        first == CHOOSE i \in where : \A j \in where : i <= j
        expected == IF where = {} THEN A[1]
                    ELSE IF first = Len(A) THEN A[1] ELSE A[first + 1]
    IN  /\ \A c \in Positions("create") :
             /\ calls[c].list.t = "array"
             /\ Len(calls[c].list.a) = 1
             /\ calls[c].list.a[1] = expected
             /\ (A = <<Str("alice"), Str("bob")>> /\ previous = <<Str("alice")>>)
                  => calls[c].list = Arr(<<Str("bob")>>)
        /\ \A k \in 1..Len(repo.created) : repo.created[k][2] = Arr(<<expected>>)
        /\ (pc = "done" /\ ~Issued("create")) =>
             (raised # <<>> /\ raised[1].at \in {"getPreviousIssue", "rotate"})

C12_Witness ==
  /\ pc = "done"
  /\ given.rotateAssignees
  /\ PreviousFound
  /\ given.assignees = Arr(<<Str("alice"), Str("bob")>>)
  /\ previousAssignees = Arr(<<Str("alice")>>)
  /\ Len(repo.created) = 1
  /\ repo.created[1][2] = Arr(<<Str("bob")>>)

\* C13: the comment on the new issue naming the previous one is posted first,
\* the comment on the previous issue naming the new one second; when the first
\* fails the second is never posted; when the second fails the first comment
\* stays and the run ends without a close, unpin or pin call.
C13_LinkedCommentsInOrder ==
  LET comments == Positions("createComment")
      onNew == <<newIssueNumber, previousIssueNumber>>
      onPrevious == <<previousIssueNumber, newIssueNumber>>
      noClosing == \A i \in 1..Len(calls) :
                     calls[i].op \notin {"close", "pinnedIssues", "unpinIssue",
                                         "pinIssue"}
  IN  /\ Cardinality(comments) <= 2
      /\ \A c \in comments :
           IF \A d \in comments : c <= d
           THEN calls[c].num = newIssueNumber /\ calls[c].list = previousIssueNumber
           ELSE /\ calls[c].num = previousIssueNumber
                /\ calls[c].list = newIssueNumber
                /\ (c - 1) \in comments
                /\ onNew \in repo.comments
      /\ onPrevious \in repo.comments => onNew \in repo.comments
      /\ (raised # <<>> /\ raised[1].at = "comment1") =>
           /\ Cardinality(comments) = 1
           /\ repo.comments = {}
           /\ noClosing
      /\ (raised # <<>> /\ raised[1].at = "comment2") =>
           /\ pc = "done"
           /\ repo.comments = {onNew}
           /\ noClosing
           /\ repo.closed = {}

C13_Witness ==
  /\ pc = "done"
  /\ raised # <<>>
  /\ raised[1].at = "comment2"
  /\ given.closePrevious /\ given.pinned
  /\ newIssueNumber.t = "number"
  /\ repo.comments = {<<newIssueNumber, previousIssueNumber>>}

\* C14: isPinned is true iff the issue id is among the nodes of the answered
\* pinned-issues list, false when the repository resource is not resolved;
\* unpin issues its mutation iff isPinned is true, and otherwise returns.
C14_UnpinIffListed ==
  data # <<>> =>
    LET answer == data[1]
        listed == /\ answer.resource
                  /\ answer.hasNodes
                  /\ \E node \in answer.nodes : node = previousIssueNodeId
        query == CHOOSE q \in Positions("pinnedIssues") : TRUE
    IN  /\ Count("pinnedIssues") = 1
        /\ Len(calls) > query
        /\ IF listed
           THEN /\ calls[query + 1].op = "unpinIssue"
                /\ calls[query + 1].id = previousIssueNodeId
           ELSE calls[query + 1].op = "pinIssue"
        /\ Issued("unpinIssue") <=> listed
        /\ ~answer.resource => ~Issued("unpinIssue")
        /\ (answer.hasNodes /\ answer.nodes = {NodeId(1), OtherNode}
              /\ previousIssueNodeId = NodeId(1)) => Issued("unpinIssue")
        /\ (answer.hasNodes /\ answer.nodes = {OtherNode}) => ~Issued("unpinIssue")

C14_Witness ==
  /\ data # <<>>
  /\ data[1].hasNodes
  /\ data[1].nodes = {OtherNode}
  /\ Issued("pinIssue")
  /\ ~Issued("unpinIssue")
  /\ pc = "done"

\* The place of a tracker call in the order of run's steps.
Rank(op) ==
  CASE op = "listForRepo" -> 1
    [] op = "create" -> 2
    [] op = "listProjects" -> 3
    [] op = "listColumns" -> 4
    [] op = "createCard" -> 5
    [] op = "updateMilestone" -> 6
    [] op = "createComment" -> 7
    [] op = "close" -> 8
    [] op = "pinnedIssues" -> 9
    [] op = "unpinIssue" -> 10
    [] op = "pinIssue" -> 11

\* C15: the tracker calls of a run go out one at a time in the order lookup,
\* create, project column, milestone, linked comments, close, unpin, pin; at
\* most one call is in flight, it is the last one issued, and none is left in
\* flight when the run is over.
C15_SequentialFixedOrder ==
  /\ Len(inflight) <= 1
  /\ inflight # <<>> =>
       /\ calls # <<>>
       /\ inflight[1].op = calls[Len(calls)].op
       /\ pc \notin {"start", "rotate", "project", "milestone", "comments",
                     "close", "output", "done"}
  /\ pc \in {"start", "rotate", "project", "milestone", "comments", "close",
             "output", "done"} => inflight = <<>>
  /\ \A i \in 1..Len(calls), j \in 1..Len(calls) :
       i < j =>
         \/ Rank(calls[i].op) < Rank(calls[j].op)
         \/ /\ calls[i].op = "createComment" /\ calls[j].op = "createComment"
            /\ j = i + 1

C15_Witness ==
  /\ pc = "done"
  /\ raised = <<>>
  /\ Len(calls) = 11
  /\ calls[1].op = "listForRepo"
  /\ calls[5].op = "createCard"
  /\ calls[6].op = "updateMilestone"
  /\ calls[11].op = "pinIssue"

\* C16: the pinned-issues query, the unpin and the pin mutation are issued only
\* in runs that found a previous issue and have closePrevious and pinned set;
\* with pinned set and closePrevious unset, or pinned set and no previous
\* issue found, the lookup is still made and the new issue is never pinned.
C16_PinOnlyWhenClosingPrevious ==
  /\ (Issued("pinIssue") \/ Issued("unpinIssue") \/ Issued("pinnedIssues")) =>
       /\ PreviousFound
       /\ given.pinned
       /\ given.closePrevious
       /\ Issued("close")
  /\ (given.pinned /\ pc # "start") => Issued("listForRepo")
  /\ (given.pinned /\ (~given.closePrevious \/ ~PreviousFound)) =>
       /\ ~Issued("pinIssue")
       /\ newIssueNodeId.t = "string" => newIssueNodeId \notin repo.pinned
       /\ repo.pinned \subseteq {NodeId(k) : k \in PrevNumbers} \cup {OtherNode}

C16_Witness ==
  /\ pc = "done"
  /\ raised = <<>>
  /\ given.pinned
  /\ ~given.closePrevious
  /\ PreviousFound
  /\ Len(outputs) = 1
  /\ Issued("listForRepo")
  /\ ~Issued("pinIssue")

BeforeCreated == {"start", "getPreviousIssue", "rotate", "createNewIssue"}
FailedBeforeCreated == raised # <<>> /\ raised[1].at \in BeforeCreated
WriteCalls == {"createCard", "updateMilestone", "createComment", "close",
               "unpinIssue", "pinIssue"}

\* C17: no comment, close, unpin or pin (nor any other write) is issued before
\* the create call has returned without an error, and a run whose create call
\* (or an earlier step) raises leaves the tracker as it was: nothing closed,
\* nothing commented, the pinned issues unchanged.
C17_NoWriteBeforeCreated ==
  /\ []((pc \in BeforeCreated \/ FailedBeforeCreated) =>
          /\ \A i \in 1..Len(calls) : calls[i].op \notin WriteCalls
          /\ repo.closed = {}
          /\ repo.comments = {}
          /\ repo.cards = {}
          /\ repo.milestones = {}
          /\ repo.created = <<>>)
  /\ [](\A i \in 1..Len(calls) :
          calls[i].op \in WriteCalls => \E c \in Positions("create") : c < i)
  /\ [][(pc \in BeforeCreated /\ (pc' \in BeforeCreated \/ raised' # <<>>))
          => repo' = repo]_vars

C17_Witness ==
  /\ pc = "done"
  /\ raised # <<>>
  /\ raised[1].at = "createNewIssue"
  /\ raised[1].error \in Errors
  /\ PreviousFound
  /\ given.closePrevious /\ given.linkedComments /\ given.pinned
  /\ previousIssueNodeId \in repo.pinned

\* C19: in a run with pinned and closePrevious set whose pinned-issues query
\* lists the previous issue, the repository never has more pinned issues than
\* the query listed at the start: the previous issue is unpinned before the
\* new one is pinned, the two are never pinned together, and no other step of
\* the run changes the pinned issues.
C19_PinnedCountNeverGrows ==
  /\ []((given.pinned /\ given.closePrevious /\ AnsweredPinned) =>
          /\ Cardinality(repo.pinned) <= Cardinality(data[1].nodes)
          /\ ~(previousIssueNodeId \in repo.pinned
                 /\ newIssueNodeId \in repo.pinned)
          /\ Issued("pinIssue") =>
               /\ previousIssueNodeId \notin repo.pinned
               /\ \E u \in Positions("unpinIssue"), n \in Positions("pinIssue") :
                    u < n)
  /\ [][pc \notin {"unpin", "pin"} => repo'.pinned = repo.pinned]_vars
  /\ [][pc = "unpin" => Cardinality(repo'.pinned) <= Cardinality(repo.pinned)]_vars

C19_Witness ==
  /\ pc = "done"
  /\ raised = <<>>
  /\ given.pinned /\ given.closePrevious
  /\ AnsweredPinned
  /\ data[1].nodes = {NodeId(1), OtherNode}
  /\ repo.pinned = {newIssueNodeId, OtherNode}

\* Run i of the series was successful and its lookup returned the issue that
\* the successful run before it created, with its single assignee from A.
Linked(i) ==
  /\ i >= 2 /\ i <= Len(history)
  /\ history[i].ok /\ history[i - 1].ok
  /\ history[i].looked = history[i - 1].number
  /\ history[i - 1].assignees.t = "array"
  /\ Len(history[i - 1].assignees.a) = 1
  /\ \E k \in 1..Len(given.assignees.a) :
       given.assignees.a[k] = history[i - 1].assignees.a[1]

\* C18: along consecutive successful runs with rotateAssignees set and a list
\* A of distinct assignees, each run looking up the issue of the run before
\* it, every run assigns the successor in A of the previous run's assignee,
\* so any len(A) consecutive runs assign every member of A exactly once.
C18_RotationCyclesThroughList ==
  LET A == given.assignees.a
      n == Len(A)
      PlaceIn(x) == CHOOSE k \in 1..n : A[k] = x
  IN  /\ \A i \in 2..Len(history) :
           Linked(i) =>
             /\ history[i].assignees.t = "array"
             /\ Len(history[i].assignees.a) = 1
             /\ LET before == PlaceIn(history[i - 1].assignees.a[1])
                IN  history[i].assignees.a[1] = A[IF before = n THEN 1
                                                               ELSE before + 1]
      /\ \A i \in 2..Len(history) :
           (i + n - 1 <= Len(history) /\ \A j \in i..(i + n - 1) : Linked(j)) =>
             /\ {history[j].assignees.a[1] : j \in i..(i + n - 1)}
                  = {A[k] : k \in 1..n}
             /\ \A j1, j2 \in i..(i + n - 1) :
                  j1 # j2 => history[j1].assignees # history[j2].assignees

C18_Witness ==
  /\ Len(history) = 3
  /\ Len(given.assignees.a) = 2
  /\ Linked(2) /\ Linked(3)
  /\ history[1].assignees = Arr(<<Str("bob")>>)
  /\ history[2].assignees = Arr(<<Str("alice")>>)
  /\ history[3].assignees = Arr(<<Str("bob")>>)

====
